---------------------------- MODULE Spec2Model ----------------------------
(***************************************************************************)
(* A model of twitvault's crawl engine (src/src/crawler.rs): the           *)
(* orchestrator `fetch`, the five paginated resource crawlers, tweet and   *)
(* profile inspection, and the download worker that drains the bounded     *)
(* instruction queue.  The crawler and the worker are two processes that   *)
(* share the storage mutex and the queue; every await of the source is a   *)
(* position of one of the two processes.                                   *)
(***************************************************************************)
EXTENDS Integers, Sequences, FiniteSets, TLC

(***************************************************************************)
(* Bounds of the model.  The page sizes and the queue capacity stand for   *)
(* the source's 50 / 500 / 2000 / 4096, scaled down.                       *)
(***************************************************************************)
NTweets == 3
NMentions == 1
NFollowers == 2
NFollows == 1
NLists == 2
TweetPageSize == 2
IdPageSize == 1
ListPageSize == 2
MemberPageSize == 2
QueueCap == 1
MaxErrors == 1
MaxCrashes == 1
MaxVariants == 3
MaxEpoch == 24

(***************************************************************************)
(* Option<T>: None is the empty tuple, Some(x) the one-element tuple.      *)
(***************************************************************************)
None == <<>>
Some(x) == <<x>>
Unwrap(o) == o[1]

Max(S) == CHOOSE m \in S : \A x \in S : x <= m
Min2(a, b) == IF a <= b THEN a ELSE b

RECURSIVE Flatten(_)
Flatten(ss) == IF ss = <<>> THEN <<>> ELSE Head(ss) \o Flatten(Tail(ss))

Range(s) == { s[i] : i \in DOMAIN s }

(***************************************************************************)
(* The upstream world: the account's feeds.  It is fixed data; the crawl   *)
(* only reads it through the page requests below.                          *)
(***************************************************************************)
OwnerId == 1

UA == [name |-> "a", ext |-> "jpg"]
UB == [name |-> "b", ext |-> ""]
UV == [name |-> "v", ext |-> "bin"]

\* A video variant: content type subtype, bitrate (Option<i32>), url.
Variant(ct, br, url) == [ct |-> ct, bitrate |-> br, url |-> url]
\* A media entity: video_info (None or Some(variants)) and media_url_https.
Photo(url) == [video |-> None, url |-> url]
Video(vs, url) == [video |-> Some(vs), url |-> url]

MkTweet(id, user, quoted, retweeted, media, reply_to) ==
    [id |-> id, user |-> user, quoted |-> quoted, retweeted |-> retweeted,
     media |-> media, reply_to |-> reply_to]

\* Tweets 1..NTweets are the owner's timeline, 11, 12, .. the mentions,
\* 21 and 22 are embedded tweets, 31, 32 and 33 are search results.
\* user, quoted, retweeted and reply_to are Options.
Tweet(i) ==
    CASE i = 1  -> MkTweet(1, Some(OwnerId), None, None, <<Photo(UA)>>, None)
      [] i = 2  -> MkTweet(2, Some(2), Some(21), None, <<>>, None)
      [] i = 3  -> MkTweet(3, None, None, Some(22), <<>>, None)
      [] i = 21 -> MkTweet(21, Some(3), None, None,
                       <<Video(<<Variant("mp4", Some(300), UV),
                                 Variant("mp4", Some(900), UB)>>, UA)>>, None)
      [] i = 22 -> MkTweet(22, Some(2), None, None, <<Photo(UA)>>, None)
      [] i = 31 -> MkTweet(31, Some(3), None, None, <<Photo(UV)>>, Some(1))
      [] i = 32 -> MkTweet(32, Some(2), None, None, <<Photo(UB)>>, Some(7))
      [] i = 33 -> MkTweet(33, Some(2), None, None, <<>>, Some(1))
      [] i > 10 /\ i < 20 ->
                   MkTweet(i, Some(2), None, None, <<Photo(UB)>>, None)
      [] OTHER  -> MkTweet(i, Some(OwnerId), None, None, <<>>, None)

\* search "to:<owner>" since tweet t: the statuses returned.
SearchResults(t) ==
    IF t = 1 THEN <<31, 32, 33>> ELSE IF t = 3 THEN <<32>> ELSE <<>>

\* A user profile: optional background image, optional banner, avatar.
Profile(id) ==
    CASE id = 2 -> [id |-> 2, background |-> None, banner |-> None, image |-> UA]
      [] id = 3 -> [id |-> 3, background |-> Some(UB), banner |-> None, image |-> UA]
      [] OTHER  -> [id |-> id, background |-> Some(UB), banner |-> Some(UA), image |-> UA]

TimelineIds(kind) ==
    IF kind = "user_tweets" THEN 1..NTweets
    ELSE { 10 + i : i \in 1..NMentions }

IdFeed(kind) ==
    IF kind = "followers" THEN [i \in 1..NFollowers |-> i + 1]
    ELSE [i \in 1..NFollows |-> i + 2]

ListFeed == [i \in 1..NLists |-> i]

ListMembers(l) == IF l = 1 THEN <<2, 3>> ELSE <<l + 2>>


(***************************************************************************)
(* The upstream API, as the crawl calls it.                                *)
(***************************************************************************)
RECURSIVE TopDesc(_, _)
TopDesc(S, n) ==
    IF n = 0 \/ S = {} THEN <<>>
    ELSE LET m == Max(S) IN <<m>> \o TopDesc(S \ {m}, n - 1)

\* statuses/user_timeline and mentions_timeline: the newest `count` tweets
\* with since_id < id <= max_id, newest first.
TimelineCall(kind, since_id, max_id) ==
    TopDesc({ i \in TimelineIds(kind) :
                /\ (since_id = None \/ i > Unwrap(since_id))
                /\ (max_id = None \/ i <= Unwrap(max_id)) },
            TweetPageSize)

\* egg_mode Timeline::older(since_id): the request bounded above by
\* min_id - 1 and below by the argument.
TimelineOlder(kind, min_id, since_id) ==
    TimelineCall(kind, since_id,
                 IF min_id = None THEN None ELSE Some(Unwrap(min_id) - 1))

\* egg_mode Timeline::map_ids: min_id of the timeline after a response.
MapMinId(resp) == IF resp = <<>> THEN None ELSE Some(resp[Len(resp)])

\* A cursored listing of `items` in pages of `size`: cursor -1 is the first
\* page, cursor k > 0 the page after page k, cursor 0 is past the end; the
\* last page's next_cursor is 0.
NumPages(items, size) == (Len(items) + size - 1) \div size
CursorPageNo(cursor) == IF cursor = -1 THEN 1 ELSE IF cursor = 0 THEN 0 ELSE cursor + 1
CursorItems(items, size, cursor) ==
    LET k == CursorPageNo(cursor) IN
    IF k < 1 \/ k > NumPages(items, size) THEN <<>>
    ELSE SubSeq(items, (k - 1) * size + 1, Min2(k * size, Len(items)))
CursorNext(items, size, cursor) ==
    LET k == CursorPageNo(cursor) IN
    IF k < 1 \/ k >= NumPages(items, size) THEN 0 ELSE k

\* cursor.next_cursor = paging_position.map(|e| e as i64).unwrap_or(-1)
PosToCursor(pos) == IF pos = None THEN -1 ELSE Unwrap(pos)
\* u64::try_from(cursor.next_cursor).ok()
CursorToPos(c) == IF c < 0 THEN None ELSE Some(c)

(***************************************************************************)
(* Download instructions and the pure parts of inspection.                 *)
(***************************************************************************)
Instr(kind, mime, url) == [kind |-> kind, mime |-> mime, url |-> url]
Image(url) == Instr("Image", "", url)
Movie(mime, url) == Instr("Movie", mime, url)
ProfileMedia(url) == Instr("ProfileMedia", "", url)
DoneInstr == Instr("Done", "", UA)

\* Option<i32> ordering: None < Some(_), Some by value.
OptGt(a, b) == a # None /\ (b = None \/ Unwrap(a) > Unwrap(b))

\* One iteration of the variant loop of inspect_inner_tweet.
SelectStep(selected, variant) ==
    IF variant.ct = "mp4" /\ selected # None
       /\ OptGt(Unwrap(selected).bitrate, variant.bitrate)
    THEN Some(variant) ELSE selected

RECURSIVE SelectFold(_, _)
SelectFold(selected, vs) ==
    IF vs = <<>> THEN selected
    ELSE SelectFold(SelectStep(selected, Head(vs)), Tail(vs))

SelectVariant(vs) == SelectFold(IF vs = <<>> THEN None ELSE Some(vs[1]), vs)

\* The instruction, if any, one media entity is turned into.
MediaInstr(m) ==
    IF m.video = None THEN <<Image(m.url)>>
    ELSE LET sel == SelectVariant(Unwrap(m.video)) IN
         IF sel = None THEN <<>> ELSE <<Movie(Unwrap(sel).ct, Unwrap(sel).url)>>

\* inspect_profile: background, banner, avatar.
ProfileInstrs(p) ==
    (IF p.background = None THEN <<>> ELSE <<ProfileMedia(Unwrap(p.background))>>)
    \o (IF p.banner = None THEN <<>> ELSE <<ProfileMedia(Unwrap(p.banner))>>)
    \o <<ProfileMedia(p.image)>>

extension_for_url(url) == IF url.ext = "" THEN "png" ELSE url.ext

\* handle_instruction's (extension, url) of an instruction.
InstrExtension(i) ==
    IF i.kind = "Movie" /\ i.mime \in {"mp4", "avi", "3gp", "mov"} THEN i.mime
    ELSE extension_for_url(i.url)

\* The file the bytes go to: hash of the url, dot, extension.
MediaPath(i) == [hash |-> i.url.name, ext |-> InstrExtension(i)]

(***************************************************************************)
(* The crawler's pending work inside one page, as a list of steps.  Each   *)
(* step ends at an await of the source.                                    *)
(***************************************************************************)
Op(op, arg) == [op |-> op, arg |-> arg]
SendOps(instrs) == [k \in DOMAIN instrs |-> Op("send", instrs[k])]

\* inspect_inner_tweet
InnerOps(t, o) ==
    (IF o.tweet_profiles /\ t.user # None /\ Unwrap(t.user) # OwnerId
     THEN <<Op("single_profile", Unwrap(t.user))>> ELSE <<>>)
    \o SendOps(Flatten([k \in DOMAIN t.media |-> MediaInstr(t.media[k])]))

\* inspect_tweet
InspectTweetOps(t, o) ==
    InnerOps(t, o)
    \o (IF t.quoted = None THEN <<>> ELSE InnerOps(Tweet(Unwrap(t.quoted)), o))
    \o (IF t.retweeted = None THEN <<>> ELSE InnerOps(Tweet(Unwrap(t.retweeted)), o))
    \o (IF o.tweet_responses /\ (t.user = None \/ t.user = Some(OwnerId))
        THEN <<Op("search", t.id)>> ELSE <<>>)

\* Every tweet the source can hand over, and the two flags inspection reads.
TweetIds ==
    TimelineIds("user_tweets") \cup TimelineIds("user_mentions")
    \cup {21, 22, 31, 32, 33}
InspectFlags == [tweet_profiles : BOOLEAN, tweet_responses : BOOLEAN]
FlagsOf(o) == [tweet_profiles |-> o.tweet_profiles,
               tweet_responses |-> o.tweet_responses]

\* inspect_tweet and inspect_inner_tweet of each tweet, tabulated.
InspectTweetTable ==
    [i \in TweetIds |-> [f \in InspectFlags |-> InspectTweetOps(Tweet(i), f)]]
InnerTweetTable ==
    [i \in TweetIds |-> [f \in InspectFlags |-> InnerOps(Tweet(i), f)]]

\* for tweet in tweets.iter() { inspect_tweet(tweet, ...) }
PageTweetOps(ids, o) ==
    Flatten([k \in DOMAIN ids |-> InspectTweetTable[ids[k]][FlagsOf(o)]])

\* (C14 mutant) the in_reply_to_status_id filter left out
KeepAllResults(t, rs) == rs

\* fetch_tweet_replies: the results kept, in result order.
RECURSIVE KeepReplies(_, _)
KeepReplies(t, rs) ==
    IF rs = <<>> THEN <<>>
    ELSE (IF Tweet(Head(rs)).reply_to = Some(t) THEN <<Head(rs)>> ELSE <<>>)
         \o KeepReplies(t, Tail(rs))


(***************************************************************************)
(* State.                                                                  *)
(***************************************************************************)
VARIABLES
    opts,       \* config.crawl_options(): the feature flags
    paging,     \* config's persisted paging positions, key -> Option<u64>
    storage,    \* the aggregate behind Arc<Mutex<Storage>> (in memory)
    disk,       \* the aggregate as last written by Storage::save
    mutex,      \* holder of the storage mutex across an await
    queue,      \* the instruction channel's buffer
    pc,         \* the crawl task's position
    phase,      \* the phase `fetch` is at, 1..5; 6 is past the last
    cr,         \* the running crawler's locals
    todo,       \* the steps left in the page being processed
    wpc,        \* the download task's position
    winstr,     \* the instruction the download task is handling
    log,        \* the crawl task's progress events, page requests and saves
    errors,     \* upstream and filesystem failures so far
    finished,   \* the snapshot carried by Message::Finished
    downloads,  \* per url, how often its bytes were fetched and written
    crashes,    \* how often the process was killed and started again
    ckpt,       \* per paging key, the items processed and checkpointed since
                \* the key was last cleared, in order
    everCkpt,   \* per paging key, every item ever processed and checkpointed
    input,      \* the arguments of a function applied on its own, or None
    output      \* what the function returned, or None

vars == <<opts, paging, storage, disk, mutex, queue, pc, phase, cr, todo,
          wpc, winstr, log, errors, finished, downloads, crashes, ckpt, everCkpt,
          input, output>>

OptNames == {"tweets", "mentions", "followers", "follows", "lists",
             "tweet_profiles", "tweet_responses", "media"}

PhaseName(n) ==
    CASE n = 1 -> "tweets" [] n = 2 -> "mentions" [] n = 3 -> "followers"
      [] n = 4 -> "follows" [] OTHER -> "lists"

\* The paging key of each crawler, and of a list's member crawl.
Key(kind) == <<kind, 0>>
ListKey(l) == <<"list-", l>>
\* (C6 mutant) the followers phase crawling the follows feed and vice versa
PhaseKindSwapped(n) ==
    CASE n = 1 -> "user_tweets" [] n = 2 -> "user_mentions" [] n = 3 -> "follows"
      [] n = 4 -> "followers" [] OTHER -> "lists"

PhaseKind(n) ==
    CASE n = 1 -> "user_tweets" [] n = 2 -> "user_mentions" [] n = 3 -> "followers"
      [] n = 4 -> "follows" [] OTHER -> "lists"
PagingKeys ==
    { Key(PhaseKind(n)) : n \in 1..5 } \cup { ListKey(l) : l \in 1..NLists }

Urls == {UA, UB, UV}

EmptyStorage ==
    [tweets |-> <<>>, mentions |-> <<>>, followers |-> <<>>, follows |-> <<>>,
     lists |-> <<>>, profiles |-> {}, media |-> <<>>, responses |-> <<>>]

CrInit ==
    [min_id |-> None, next_min_id |-> None, first_page |-> None,
     cursor |-> -1, next |-> 0, ids |-> <<>>, page |-> <<>>, filtered |-> <<>>,
     list |-> 0, mcursor |-> -1, mnext |-> 0, member_ids |-> <<>>]

IdleInstr == DoneInstr

\* Entries of the log.
Loading(n) == [e |-> "loading", phase |-> n, key |-> Key(PhaseKind(n)), at |-> <<>>]
Req(n, key, at) == [e |-> "request", phase |-> n, key |-> key, at |-> at]
Saved(n, ok) == [e |-> "save", phase |-> n, key |-> Key(PhaseKind(n)), at |-> <<ok>>]
DoneSent == [e |-> "done", phase |-> 6, key |-> Key("done"), at |-> <<>>]
FinishedSent == [e |-> "finished", phase |-> 6, key |-> Key("done"), at |-> <<>>]

AllOptions == [OptNames -> BOOLEAN]

InitState(options) ==
    /\ opts \in options
    /\ paging = [k \in PagingKeys |-> None]
    /\ storage = EmptyStorage
    /\ disk = EmptyStorage
    /\ mutex = "free"
    /\ queue = <<>>
    /\ pc = "phase"
    /\ phase = 1
    /\ cr = CrInit
    /\ todo = <<>>
    /\ wpc = "recv"
    /\ winstr = IdleInstr
    /\ log = <<>>
    /\ errors = 0
    /\ finished = None
    /\ downloads = [u \in Urls |-> 0]
    /\ crashes = 0
    /\ ckpt = [k \in PagingKeys |-> <<>>]
    /\ everCkpt = [k \in PagingKeys |-> {}]

InitWith(options) == InitState(options) /\ input = None /\ output = None

Init == InitWith(AllOptions)

IsTimeline == phase \in {1, 2}
IsIds == phase \in {3, 4}
IsLists == phase = 5

(***************************************************************************)
(* fetch: the orchestrator.                                                *)
(***************************************************************************)
\* if config.crawl_options().<phase> is false
PhaseSkip ==
    /\ pc = "phase" /\ phase <= 5 /\ ~opts[PhaseName(phase)]
    /\ phase' = phase + 1
    /\ UNCHANGED <<input, output, opts, paging, storage, disk, mutex, queue, pc, cr, todo,
                   wpc, winstr, log, errors, finished, downloads,
                   crashes, ckpt, everCkpt>>

\* msg("<phase>", &sender).await?
PhaseStart ==
    /\ pc = "phase" /\ phase <= 5 /\ opts[PhaseName(phase)]
    /\ log' = Append(log, Loading(phase))
    /\ pc' = "begin"
    /\ UNCHANGED <<input, output, opts, paging, storage, disk, mutex, queue, phase, cr, todo,
                   wpc, winstr, errors, finished, downloads,
                   crashes, ckpt, everCkpt>>

\* save_data(&shared_storage).await, the write succeeding
SaveData ==
    /\ pc = "save" /\ mutex = "free"
    /\ disk' = storage
    /\ log' = Append(log, Saved(phase, TRUE))
    /\ phase' = phase + 1
    /\ pc' = "phase"
    /\ UNCHANGED <<input, output, opts, paging, storage, mutex, queue, cr, todo,
                   wpc, winstr, errors, finished, downloads,
                   crashes, ckpt, everCkpt>>

\* save_data, the write failing: logged, not fatal
SaveDataFails ==
    /\ pc = "save" /\ mutex = "free" /\ errors < MaxErrors
    /\ errors' = errors + 1
    /\ log' = Append(log, Saved(phase, FALSE))
    /\ phase' = phase + 1
    /\ pc' = "phase"
    /\ UNCHANGED <<input, output, opts, paging, storage, disk, mutex, queue, cr, todo,
                   wpc, winstr, finished, downloads,
                   crashes, ckpt, everCkpt>>

\* instruction_sender.send(DownloadInstruction::Done).await?
SendDone ==
    /\ pc = "phase" /\ phase = 6 /\ Len(queue) < QueueCap
    /\ queue' = Append(queue, DoneInstr)
    /\ log' = Append(log, DoneSent)
    /\ pc' = "join"
    /\ UNCHANGED <<input, output, opts, paging, storage, disk, mutex, phase, cr, todo,
                   wpc, winstr, errors, finished, downloads,
                   crashes, ckpt, everCkpt>>

\* (C7 mutant) Finished sent without awaiting the download task
FinishWithoutJoin ==
    /\ pc = "join" /\ mutex = "free"
    /\ finished' = Some(storage)
    /\ log' = Append(log, FinishedSent)
    /\ pc' = "done"
    /\ UNCHANGED <<input, output, opts, paging, storage, disk, mutex, queue, phase, cr, todo,
                   wpc, winstr, errors, downloads,
                   crashes, ckpt, everCkpt>>

\* instruction_task.await?; clone under the lock; send Finished
Finish ==
    /\ pc = "join" /\ wpc = "exited" /\ mutex = "free"
    /\ finished' = Some(storage)
    /\ log' = Append(log, FinishedSent)
    /\ pc' = "done"
    /\ UNCHANGED <<input, output, opts, paging, storage, disk, mutex, queue, phase, cr, todo,
                   wpc, winstr, errors, downloads,
                   crashes, ckpt, everCkpt>>


(***************************************************************************)
(* Bookkeeping of what was processed and checkpointed (history only).      *)
(***************************************************************************)
\* set_paging_position(key, Some(..)) after a page of `items` was processed
NoteCheckpoint(key, items) ==
    /\ ckpt' = [ckpt EXCEPT ![key] = @ \o items]
    /\ everCkpt' = [everCkpt EXCEPT ![key] = @ \cup Range(items)]

\* set_paging_position(key, None)
NoteCleared(key) ==
    /\ ckpt' = [ckpt EXCEPT ![key] = <<>>]
    /\ UNCHANGED everCkpt

(***************************************************************************)
(* handle_rate_limit: the quota left after a call decides on a sleep.      *)
(***************************************************************************)
RateRemaining == {1, 2}
ShouldSleep(remaining) == remaining <= 1

(***************************************************************************)
(* fetch_user_tweets and fetch_user_mentions.                              *)
(***************************************************************************)
\* let mut first_page = config.paging_position(..); the first timeline.older
TimelineBegin ==
    /\ pc = "begin" /\ IsTimeline
    /\ LET key == Key(PhaseKind(phase)) IN
       /\ cr' = [CrInit EXCEPT !.first_page = paging[key]]
       /\ log' = Append(log, Req(phase, key, <<paging[key], None>>))
    /\ pc' = "call"
    /\ UNCHANGED <<input, output, opts, paging, storage, disk, mutex, queue, phase, todo,
                   wpc, winstr, errors, finished, downloads,
                   crashes, ckpt, everCkpt>>

\* (C15 mutant) the crawler's error dropped by fetch, which goes on to save
TimelineCallErrorIgnored ==
    /\ pc = "call" /\ IsTimeline /\ errors < MaxErrors
    /\ errors' = errors + 1
    /\ pc' = "save"
    /\ cr' = CrInit
    /\ UNCHANGED <<input, output, opts, paging, storage, disk, mutex, queue, phase, todo,
                   wpc, winstr, log, finished, downloads,
                   crashes, ckpt, everCkpt>>

\* timeline.older(first_page).await? fails: the error leaves fetch
TimelineCallError ==
    /\ pc = "call" /\ IsTimeline /\ errors < MaxErrors
    /\ errors' = errors + 1
    /\ pc' = "aborted"
    /\ cr' = CrInit
    /\ UNCHANGED <<input, output, opts, paging, storage, disk, mutex, queue, phase, todo,
                   wpc, winstr, log, finished, downloads,
                   crashes, ckpt, everCkpt>>

\* the response is empty: break; set_paging_position(key, None); Ok(())
TimelineEmpty ==
    /\ pc = "call" /\ IsTimeline
    /\ TimelineOlder(PhaseKind(phase), cr.min_id, cr.first_page) = <<>>
    /\ paging' = [paging EXCEPT ![Key(PhaseKind(phase))] = None]
    /\ NoteCleared(Key(PhaseKind(phase)))
    /\ cr' = CrInit
    /\ pc' = "save"
    /\ UNCHANGED <<input, output, opts, storage, disk, mutex, queue, phase, todo,
                   wpc, winstr, log, errors, finished, downloads,
                   crashes>>

\* a page of tweets arrives: every tweet is to be inspected
TimelinePage ==
    /\ pc = "call" /\ IsTimeline
    /\ LET resp == TimelineOlder(PhaseKind(phase), cr.min_id, cr.first_page) IN
       /\ resp # <<>>
       /\ cr' = [cr EXCEPT !.first_page = None, !.page = resp,
                           !.next_min_id = MapMinId(resp)]
       /\ todo' = PageTweetOps(resp, opts)
    /\ pc' = "items"
    /\ UNCHANGED <<input, output, opts, paging, storage, disk, mutex, queue, phase,
                   wpc, winstr, log, errors, finished, downloads,
                   crashes, ckpt, everCkpt>>

\* (C19 mutant) the next page requested with the position not written
TimelineAdvanceUnsaved ==
    LET key == Key(PhaseKind(phase)) IN
    /\ cr' = [cr EXCEPT !.min_id = cr.next_min_id, !.page = <<>>]
    /\ log' = Append(log, Req(phase, key, <<None, cr.next_min_id>>))
    /\ pc' = "call"
    /\ UNCHANGED <<paging, ckpt, everCkpt>>

\* timeline = next_timeline; config.set_paging_position(key, timeline.min_id);
\* and the next timeline.older(None)
TimelineAdvance ==
    LET key == Key(PhaseKind(phase)) IN
    /\ cr' = [cr EXCEPT !.min_id = cr.next_min_id, !.page = <<>>]
    /\ paging' = [paging EXCEPT ![key] = cr.next_min_id]
    /\ NoteCheckpoint(key, cr.page)
    /\ log' = Append(log, Req(phase, key, <<None, cr.next_min_id>>))
    /\ pc' = "call"

\* the collection the timeline crawler appends to
\* (C8 mutant) the page put in front of the collection
TimelinePrepend(st, n, page) ==
    IF n = 1 THEN [st EXCEPT !.tweets = page \o st.tweets]
    ELSE [st EXCEPT !.mentions = page \o st.mentions]

TimelineAppend(st, n, page) ==
    IF n = 1 THEN [st EXCEPT !.tweets = st.tweets \o page]
    ELSE [st EXCEPT !.mentions = st.mentions \o page]

\* all tweets of the page inspected: append the page, handle_rate_limit
TimelinePageDone ==
    /\ pc = "items" /\ IsTimeline /\ todo = <<>> /\ mutex = "free"
    /\ storage' = TimelineAppend(storage, phase, cr.page)
    /\ \E remaining \in RateRemaining :
         IF ShouldSleep(remaining)
         THEN /\ pc' = "sleep"
              /\ UNCHANGED <<cr, paging, log, ckpt, everCkpt>>
         ELSE TimelineAdvance
    /\ UNCHANGED <<input, output, opts, disk, mutex, queue, phase, todo,
                   wpc, winstr, errors, finished, downloads,
                   crashes>>

\* tokio::time::sleep(wait_duration) is over
TimelineWake ==
    /\ pc = "sleep" /\ IsTimeline
    /\ TimelineAdvance
    /\ UNCHANGED <<input, output, opts, storage, disk, mutex, queue, phase, todo,
                   wpc, winstr, errors, finished, downloads,
                   crashes>>

(***************************************************************************)
(* fetch_user_followers / fetch_user_follows over fetch_profiles_ids and   *)
(* fetch_multiple_profiles_data.                                           *)
(***************************************************************************)
IdsPageAt(c) == CursorItems(IdFeed(PhaseKind(phase)), IdPageSize, c)
IdsNextAt(c) == CursorNext(IdFeed(PhaseKind(phase)), IdPageSize, c)

\* let mut ids = Vec::new(); cursor.next_cursor = paging position or -1
IdsBegin ==
    /\ pc = "begin" /\ IsIds
    /\ LET key == Key(PhaseKind(phase))
           c == PosToCursor(paging[key]) IN
       /\ cr' = [CrInit EXCEPT !.cursor = c]
       /\ log' = Append(log, Req(phase, key, <<c>>))
    /\ pc' = "call"
    /\ UNCHANGED <<input, output, opts, paging, storage, disk, mutex, queue, phase, todo,
                   wpc, winstr, errors, finished, downloads,
                   crashes, ckpt, everCkpt>>

\* Err(e) => { warn!; continue }: the same cursor is called again
\* (C9 mutant) the error propagated with ? as the timeline crawlers do
IdsCallErrorAborts ==
    /\ pc = "call" /\ IsIds /\ errors < MaxErrors
    /\ errors' = errors + 1
    /\ pc' = "aborted"
    /\ cr' = CrInit
    /\ UNCHANGED <<input, output, opts, paging, storage, disk, mutex, queue, phase, todo,
                   wpc, winstr, log, finished, downloads,
                   crashes, ckpt, everCkpt>>

IdsCallError ==
    /\ pc = "call" /\ IsIds /\ errors < MaxErrors
    /\ errors' = errors + 1
    /\ log' = Append(log, Req(phase, Key(PhaseKind(phase)), <<cr.cursor>>))
    /\ UNCHANGED <<input, output, opts, paging, storage, disk, mutex, queue, pc, phase, cr, todo,
                   wpc, winstr, finished, downloads,
                   crashes, ckpt, everCkpt>>

\* (C18 mutant) the ids added to the list already held
StoreIdsExtending(st, n, ids) ==
    IF n = 3 THEN [st EXCEPT !.followers = @ \o ids]
    ELSE [st EXCEPT !.follows = @ \o ids]

\* the ids the phase stores when fetch_profiles_ids returns
StoreIds(st, n, ids) ==
    IF n = 3 THEN [st EXCEPT !.followers = ids] ELSE [st EXCEPT !.follows = ids]

\* new_ids is empty: break; clear the position; the caller stores the ids
IdsEmpty ==
    /\ pc = "call" /\ IsIds /\ mutex = "free"
    /\ IdsPageAt(cr.cursor) = <<>>
    /\ paging' = [paging EXCEPT ![Key(PhaseKind(phase))] = None]
    /\ NoteCleared(Key(PhaseKind(phase)))
    /\ storage' = StoreIds(storage, phase, cr.ids)
    /\ cr' = CrInit
    /\ pc' = "save"
    /\ UNCHANGED <<input, output, opts, disk, mutex, queue, phase, todo,
                   wpc, winstr, log, errors, finished, downloads,
                   crashes>>

\* fetch_multiple_profiles_data: the ids not yet among the known profiles
FilterKnown(ids, known) == SelectSeq(ids, LAMBDA id : id \notin known)

\* a page of ids arrives; the unknown ones are looked up in one call
IdsPage ==
    /\ pc = "call" /\ IsIds /\ mutex = "free"
    /\ IdsPageAt(cr.cursor) # <<>>
    /\ cr' = [cr EXCEPT !.page = IdsPageAt(cr.cursor),
                        !.next = IdsNextAt(cr.cursor),
                        !.filtered = FilterKnown(IdsPageAt(cr.cursor), storage.profiles)]
    /\ pc' = "lookup"
    /\ UNCHANGED <<input, output, opts, paging, storage, disk, mutex, queue, phase, todo,
                   wpc, winstr, log, errors, finished, downloads,
                   crashes, ckpt, everCkpt>>

\* user::lookup(filtered).await? fails: the error leaves fetch
LookupError ==
    /\ pc = "lookup" /\ errors < MaxErrors
    /\ errors' = errors + 1
    /\ pc' = "aborted"
    /\ cr' = CrInit
    /\ UNCHANGED <<input, output, opts, paging, storage, disk, mutex, queue, phase, todo,
                   wpc, winstr, log, finished, downloads,
                   crashes, ckpt, everCkpt>>

\* the profiles arrive: inspect each, then insert them all
LookupOk ==
    /\ pc = "lookup"
    /\ todo' = Flatten([k \in DOMAIN cr.filtered |->
                          SendOps(ProfileInstrs(Profile(cr.filtered[k])))])
               \o <<Op("insert_profiles", cr.filtered)>>
    /\ pc' = "items"
    /\ UNCHANGED <<input, output, opts, paging, storage, disk, mutex, queue, phase, cr,
                   wpc, winstr, log, errors, finished, downloads,
                   crashes, ckpt, everCkpt>>

\* cursor.next_cursor = resp.next_cursor; set_paging_position; next call
IdsAdvance(c) ==
    LET key == Key(PhaseKind(phase)) IN
    /\ cr' = [c EXCEPT !.cursor = c.next, !.page = <<>>, !.filtered = <<>>]
    /\ paging' = [paging EXCEPT ![key] = CursorToPos(c.next)]
    /\ NoteCheckpoint(key, c.page)
    /\ log' = Append(log, Req(phase, key, <<cr.next>>))
    /\ pc' = "call"

\* ids.append(&mut new_ids); handle_rate_limit
IdsPageDone ==
    /\ pc = "items" /\ IsIds /\ todo = <<>>
    /\ \E remaining \in RateRemaining :
         IF ShouldSleep(remaining)
         THEN /\ pc' = "sleep"
              /\ cr' = [cr EXCEPT !.ids = cr.ids \o cr.page]
              /\ UNCHANGED <<paging, log, ckpt, everCkpt>>
         ELSE IdsAdvance([cr EXCEPT !.ids = cr.ids \o cr.page])
    /\ UNCHANGED <<input, output, opts, storage, disk, mutex, queue, phase, todo,
                   wpc, winstr, errors, finished, downloads,
                   crashes>>

IdsWake ==
    /\ pc = "sleep" /\ IsIds
    /\ IdsAdvance(cr)
    /\ UNCHANGED <<input, output, opts, storage, disk, mutex, queue, phase, todo,
                   wpc, winstr, errors, finished, downloads,
                   crashes>>


(***************************************************************************)
(* fetch_lists and fetch_list_members.                                     *)
(***************************************************************************)
ListsPageAt(c) == CursorItems(ListFeed, ListPageSize, c)
ListsNextAt(c) == CursorNext(ListFeed, ListPageSize, c)
MembersPageAt(l, c) == CursorItems(ListMembers(l), MemberPageSize, c)
MembersNextAt(l, c) == CursorNext(ListMembers(l), MemberPageSize, c)

ListsBegin ==
    /\ pc = "begin" /\ IsLists
    /\ LET c == PosToCursor(paging[Key("lists")]) IN
       /\ cr' = [CrInit EXCEPT !.cursor = c]
       /\ log' = Append(log, Req(phase, Key("lists"), <<c>>))
    /\ pc' = "call"
    /\ UNCHANGED <<input, output, opts, paging, storage, disk, mutex, queue, phase, todo,
                   wpc, winstr, errors, finished, downloads,
                   crashes, ckpt, everCkpt>>

\* Err(e) => { warn!("Lists Error"); continue }
ListsCallError ==
    /\ pc = "call" /\ IsLists /\ errors < MaxErrors
    /\ errors' = errors + 1
    /\ log' = Append(log, Req(phase, Key("lists"), <<cr.cursor>>))
    /\ UNCHANGED <<input, output, opts, paging, storage, disk, mutex, queue, pc, phase, cr, todo,
                   wpc, winstr, finished, downloads,
                   crashes, ckpt, everCkpt>>

\* lists.is_empty(): break; set_paging_position("lists", None)
ListsEmpty ==
    /\ pc = "call" /\ IsLists
    /\ ListsPageAt(cr.cursor) = <<>>
    /\ paging' = [paging EXCEPT ![Key("lists")] = None]
    /\ NoteCleared(Key("lists"))
    /\ cr' = CrInit
    /\ pc' = "save"
    /\ UNCHANGED <<input, output, opts, storage, disk, mutex, queue, phase, todo,
                   wpc, winstr, log, errors, finished, downloads,
                   crashes>>

\* a page of lists arrives: for list in lists { fetch_list_members }
ListsPage ==
    /\ pc = "call" /\ IsLists
    /\ ListsPageAt(cr.cursor) # <<>>
    /\ cr' = [cr EXCEPT !.page = ListsPageAt(cr.cursor),
                        !.next = ListsNextAt(cr.cursor)]
    /\ pc' = "m_begin"
    /\ UNCHANGED <<input, output, opts, paging, storage, disk, mutex, queue, phase, todo,
                   wpc, winstr, log, errors, finished, downloads,
                   crashes, ckpt, everCkpt>>

\* fetch_list_members starts for the next list of the page
MembersBegin ==
    /\ pc = "m_begin" /\ cr.page # <<>>
    /\ LET l == Head(cr.page)
           c == PosToCursor(paging[ListKey(l)]) IN
       /\ cr' = [cr EXCEPT !.list = l, !.mcursor = c, !.member_ids = <<>>]
       /\ log' = Append(log, Req(phase, ListKey(l), <<c>>))
    /\ pc' = "m_call"
    /\ UNCHANGED <<input, output, opts, paging, storage, disk, mutex, queue, phase, todo,
                   wpc, winstr, errors, finished, downloads,
                   crashes, ckpt, everCkpt>>

\* Err(e) => { warn!("List Members Error"); continue }
MembersCallError ==
    /\ pc = "m_call" /\ errors < MaxErrors
    /\ errors' = errors + 1
    /\ log' = Append(log, Req(phase, ListKey(cr.list), <<cr.mcursor>>))
    /\ UNCHANGED <<input, output, opts, paging, storage, disk, mutex, queue, pc, phase, cr, todo,
                   wpc, winstr, finished, downloads,
                   crashes, ckpt, everCkpt>>

\* storage.lists.push(List { name, list, members: member_ids })
PushList(st, l, members) ==
    [st EXCEPT !.lists = Append(st.lists, [id |-> l, members |-> members])]

\* resp.users.is_empty(): break; clear the position; push the List
MembersEmpty ==
    /\ pc = "m_call" /\ mutex = "free"
    /\ MembersPageAt(cr.list, cr.mcursor) = <<>>
    /\ paging' = [paging EXCEPT ![ListKey(cr.list)] = None]
    /\ NoteCleared(ListKey(cr.list))
    /\ storage' = PushList(storage, cr.list, cr.member_ids)
    /\ cr' = [cr EXCEPT !.page = Tail(cr.page), !.list = 0, !.mcursor = -1,
                        !.mnext = 0, !.member_ids = <<>>]
    /\ pc' = "m_begin"
    /\ UNCHANGED <<input, output, opts, disk, mutex, queue, phase, todo,
                   wpc, winstr, log, errors, finished, downloads,
                   crashes>>

\* a page of members arrives: let mut storage = shared_storage.lock().await;
\* the guard lives to the end of the loop body
MembersPage ==
    /\ pc = "m_call" /\ mutex = "free"
    /\ LET users == MembersPageAt(cr.list, cr.mcursor) IN
       /\ users # <<>>
       /\ todo' = Flatten([k \in DOMAIN users |->
                             SendOps(ProfileInstrs(Profile(users[k])))
                             \o <<Op("member", users[k])>>])
    /\ mutex' = "crawler"
    /\ cr' = [cr EXCEPT !.mnext = MembersNextAt(cr.list, cr.mcursor)]
    /\ pc' = "items"
    /\ UNCHANGED <<input, output, opts, paging, storage, disk, queue, phase,
                   wpc, winstr, log, errors, finished, downloads,
                   crashes, ckpt, everCkpt>>

\* cursor.next_cursor = resp.next_cursor; set_paging_position(&paging_key, ..);
\* the loop body ends and drops the guard; the next call
MembersAdvance ==
    /\ cr' = [cr EXCEPT !.mcursor = cr.mnext]
    /\ paging' = [paging EXCEPT ![ListKey(cr.list)] = CursorToPos(cr.mnext)]
    /\ NoteCheckpoint(ListKey(cr.list), MembersPageAt(cr.list, cr.mcursor))
    /\ log' = Append(log, Req(phase, ListKey(cr.list), <<cr.mnext>>))
    /\ mutex' = "free"
    /\ pc' = "m_call"

\* all members of the page handled: handle_rate_limit, the guard still held
MembersPageDone ==
    /\ pc = "items" /\ IsLists /\ todo = <<>>
    /\ \E remaining \in RateRemaining :
         IF ShouldSleep(remaining)
         THEN /\ pc' = "m_sleep"
              /\ UNCHANGED <<cr, paging, log, mutex, ckpt, everCkpt>>
         ELSE MembersAdvance
    /\ UNCHANGED <<input, output, opts, storage, disk, queue, phase, todo,
                   wpc, winstr, errors, finished, downloads,
                   crashes>>

MembersWake ==
    /\ pc = "m_sleep"
    /\ MembersAdvance
    /\ UNCHANGED <<input, output, opts, storage, disk, queue, phase, todo,
                   wpc, winstr, errors, finished, downloads,
                   crashes>>

ListsAdvance ==
    /\ cr' = [cr EXCEPT !.cursor = cr.next]
    /\ paging' = [paging EXCEPT ![Key("lists")] = CursorToPos(cr.next)]
    /\ NoteCheckpoint(Key("lists"), ListsPageAt(cr.cursor))
    /\ log' = Append(log, Req(phase, Key("lists"), <<cr.next>>))
    /\ pc' = "call"

\* every list of the page crawled: handle_rate_limit
ListsPageDone ==
    /\ pc = "m_begin" /\ cr.page = <<>>
    /\ \E remaining \in RateRemaining :
         IF ShouldSleep(remaining)
         THEN /\ pc' = "sleep"
              /\ UNCHANGED <<cr, paging, log, ckpt, everCkpt>>
         ELSE ListsAdvance
    /\ UNCHANGED <<input, output, opts, storage, disk, mutex, queue, phase, todo,
                   wpc, winstr, errors, finished, downloads,
                   crashes>>

ListsWake ==
    /\ pc = "sleep" /\ IsLists
    /\ ListsAdvance
    /\ UNCHANGED <<input, output, opts, storage, disk, mutex, queue, phase, todo,
                   wpc, winstr, errors, finished, downloads,
                   crashes>>

(***************************************************************************)
(* The steps inside a page: queue sends, profile fetches, reply search.    *)
(***************************************************************************)
HasOp(name) == pc = "items" /\ todo # <<>> /\ Head(todo).op = name

\* sender.send(instruction).await: waits while the buffer is full
ExecSend ==
    /\ HasOp("send") /\ Len(queue) < QueueCap
    /\ queue' = Append(queue, Head(todo).arg)
    /\ todo' = Tail(todo)
    /\ UNCHANGED <<input, output, opts, paging, storage, disk, mutex, pc, phase, cr,
                   wpc, winstr, log, errors, finished, downloads,
                   crashes, ckpt, everCkpt>>

\* fetch_single_profile: profiles.contains_key(&id) => return Ok(())
SingleProfileKnown ==
    /\ HasOp("single_profile") /\ mutex = "free"
    /\ Head(todo).arg \in storage.profiles
    /\ todo' = Tail(todo)
    /\ UNCHANGED <<input, output, opts, paging, storage, disk, mutex, queue, pc, phase, cr,
                   wpc, winstr, log, errors, finished, downloads,
                   crashes, ckpt, everCkpt>>

\* fetch_single_profile: not cached, user::show is called
SingleProfileMiss ==
    /\ HasOp("single_profile") /\ mutex = "free"
    /\ Head(todo).arg \notin storage.profiles
    /\ todo' = <<Op("show", Head(todo).arg)>> \o Tail(todo)
    /\ UNCHANGED <<input, output, opts, paging, storage, disk, mutex, queue, pc, phase, cr,
                   wpc, winstr, log, errors, finished, downloads,
                   crashes, ckpt, everCkpt>>

\* (C16 mutant) the error of fetch_single_profile passed on with ?
ShowErrorReturned ==
    /\ HasOp("show") /\ errors < MaxErrors
    /\ errors' = errors + 1
    /\ todo' = <<>>
    /\ pc' = "aborted"
    /\ UNCHANGED <<input, output, opts, paging, storage, disk, mutex, queue, phase, cr,
                   wpc, winstr, log, finished, downloads,
                   crashes, ckpt, everCkpt>>

\* user::show(id).await? fails; inspect_inner_tweet logs it and goes on
ShowError ==
    /\ HasOp("show") /\ errors < MaxErrors
    /\ errors' = errors + 1
    /\ todo' = Tail(todo)
    /\ UNCHANGED <<input, output, opts, paging, storage, disk, mutex, queue, pc, phase, cr,
                   wpc, winstr, log, finished, downloads,
                   crashes, ckpt, everCkpt>>

\* user::show answers: inspect_profile, then insert
ShowOk ==
    /\ HasOp("show")
    /\ todo' = SendOps(ProfileInstrs(Profile(Head(todo).arg)))
               \o <<Op("insert_profile", Head(todo).arg)>> \o Tail(todo)
    /\ UNCHANGED <<input, output, opts, paging, storage, disk, mutex, queue, pc, phase, cr,
                   wpc, winstr, log, errors, finished, downloads,
                   crashes, ckpt, everCkpt>>

\* data.profiles.insert(id, profile) for each given id
InsertProfilesInto(st, ids) == [st EXCEPT !.profiles = st.profiles \cup Range(ids)]

InsertProfile ==
    /\ HasOp("insert_profile") /\ mutex = "free"
    /\ storage' = InsertProfilesInto(storage, <<Head(todo).arg>>)
    /\ todo' = Tail(todo)
    /\ UNCHANGED <<input, output, opts, paging, disk, mutex, queue, pc, phase, cr,
                   wpc, winstr, log, errors, finished, downloads,
                   crashes, ckpt, everCkpt>>

\* fetch_multiple_profiles_data's with_data closure
InsertProfiles ==
    /\ HasOp("insert_profiles") /\ mutex = "free"
    /\ storage' = InsertProfilesInto(storage, Head(todo).arg)
    /\ todo' = Tail(todo)
    /\ UNCHANGED <<input, output, opts, paging, disk, mutex, queue, pc, phase, cr,
                   wpc, winstr, log, errors, finished, downloads,
                   crashes, ckpt, everCkpt>>

\* fetch_list_members: member_ids.push(member.id); profiles.insert under the
\* guard taken at the top of the loop body
Member ==
    /\ HasOp("member") /\ mutex = "crawler"
    /\ storage' = InsertProfilesInto(storage, <<Head(todo).arg>>)
    /\ cr' = [cr EXCEPT !.member_ids = Append(cr.member_ids, Head(todo).arg)]
    /\ todo' = Tail(todo)
    /\ UNCHANGED <<input, output, opts, paging, disk, mutex, queue, pc, phase,
                   wpc, winstr, log, errors, finished, downloads,
                   crashes, ckpt, everCkpt>>

\* fetch_tweet_replies: the search fails; inspect_tweet logs it and goes on
SearchError ==
    /\ HasOp("search") /\ errors < MaxErrors
    /\ errors' = errors + 1
    /\ todo' = Tail(todo)
    /\ UNCHANGED <<input, output, opts, paging, storage, disk, mutex, queue, pc, phase, cr,
                   wpc, winstr, log, finished, downloads,
                   crashes, ckpt, everCkpt>>

\* the search answers: handle_rate_limit, inspect the kept replies, store them
SearchOk ==
    /\ HasOp("search")
    /\ LET t == Head(todo).arg
           kept == KeepReplies(t, SearchResults(t)) IN
       \E remaining \in RateRemaining :
         todo' = (IF ShouldSleep(remaining) THEN <<Op("sleep", 0)>> ELSE <<>>)
                 \o Flatten([k \in DOMAIN kept |->
                              InnerTweetTable[kept[k]][FlagsOf(opts)]])
                 \o <<Op("store_replies", [tweet |-> t, replies |-> kept])>>
                 \o Tail(todo)
    /\ UNCHANGED <<input, output, opts, paging, storage, disk, mutex, queue, pc, phase, cr,
                   wpc, winstr, log, errors, finished, downloads,
                   crashes, ckpt, everCkpt>>

\* the rate-limit sleep after the search is over
SearchWake ==
    /\ HasOp("sleep")
    /\ todo' = Tail(todo)
    /\ UNCHANGED <<input, output, opts, paging, storage, disk, mutex, queue, pc, phase, cr,
                   wpc, winstr, log, errors, finished, downloads,
                   crashes, ckpt, everCkpt>>

\* responses.insert(tweet.id, replies)
StoreReplies ==
    /\ HasOp("store_replies") /\ mutex = "free"
    /\ LET a == Head(todo).arg IN
       storage' = [storage EXCEPT
                     !.responses = (a.tweet :> a.replies) @@ storage.responses]
    /\ todo' = Tail(todo)
    /\ UNCHANGED <<input, output, opts, paging, disk, mutex, queue, pc, phase, cr,
                   wpc, winstr, log, errors, finished, downloads,
                   crashes, ckpt, everCkpt>>


(***************************************************************************)
(* The download task: the loop spawned in fetch, and handle_instruction.   *)
(***************************************************************************)
\* matches!(instruction, DownloadInstruction::Done) => break
WorkerRecvDone ==
    /\ wpc = "recv" /\ queue # <<>> /\ Head(queue).kind = "Done"
    /\ queue' = Tail(queue)
    /\ wpc' = "exited"
    /\ UNCHANGED <<input, output, opts, paging, storage, disk, mutex, pc, phase, cr, todo,
                   winstr, log, errors, finished, downloads,
                   crashes, ckpt, everCkpt>>

\* (C21 mutant) the download_media test left out: the instruction is handled
WorkerDiscardHandles ==
    /\ wpc = "recv" /\ queue # <<>> /\ Head(queue).kind # "Done" /\ ~opts["media"]
    /\ winstr' = Head(queue)
    /\ queue' = Tail(queue)
    /\ wpc' = "check"
    /\ UNCHANGED <<input, output, opts, paging, storage, disk, mutex, pc, phase, cr, todo,
                   log, errors, finished, downloads,
                   crashes, ckpt, everCkpt>>

\* if !download_media { continue }
WorkerDiscard ==
    /\ wpc = "recv" /\ queue # <<>> /\ Head(queue).kind # "Done" /\ ~opts["media"]
    /\ queue' = Tail(queue)
    /\ UNCHANGED <<input, output, opts, paging, storage, disk, mutex, pc, phase, cr, todo,
                   wpc, winstr, log, errors, finished, downloads,
                   crashes, ckpt, everCkpt>>

\* handle_instruction is entered with the received instruction
WorkerTake ==
    /\ wpc = "recv" /\ queue # <<>> /\ Head(queue).kind # "Done" /\ opts["media"]
    /\ winstr' = Head(queue)
    /\ queue' = Tail(queue)
    /\ wpc' = "check"
    /\ UNCHANGED <<input, output, opts, paging, storage, disk, mutex, pc, phase, cr, todo,
                   log, errors, finished, downloads,
                   crashes, ckpt, everCkpt>>

\* recv() returns None: every sender was dropped when fetch returned
WorkerClosed ==
    /\ wpc = "recv" /\ queue = <<>> /\ pc = "aborted"
    /\ wpc' = "exited"
    /\ UNCHANGED <<input, output, opts, paging, storage, disk, mutex, queue, pc, phase, cr, todo,
                   winstr, log, errors, finished, downloads,
                   crashes, ckpt, everCkpt>>

\* (C10 mutant) the contains_key check left out
MediaNeverKnown(st, url) == FALSE

\* storage.data().media.contains_key(&url)
MediaKnown(st, url) == url \in DOMAIN st.media

\* under the lock: the url is already recorded, return Ok(())
WorkerSkip ==
    /\ wpc = "check" /\ mutex = "free"
    /\ MediaKnown(storage, winstr.url)
    /\ wpc' = "recv"
    /\ winstr' = IdleInstr
    /\ UNCHANGED <<input, output, opts, paging, storage, disk, mutex, queue, pc, phase, cr, todo,
                   log, errors, finished, downloads,
                   crashes, ckpt, everCkpt>>

\* under the lock: not recorded; the path is computed, the file created and
\* the request sent
WorkerStart ==
    /\ wpc = "check" /\ mutex = "free"
    /\ ~MediaKnown(storage, winstr.url)
    /\ wpc' = "fetch"
    /\ UNCHANGED <<input, output, opts, paging, storage, disk, mutex, queue, pc, phase, cr, todo,
                   winstr, log, errors, finished, downloads,
                   crashes, ckpt, everCkpt>>

\* (C17 mutant) the error of handle_instruction ends the receive loop
WorkerFailsAndExits ==
    /\ wpc = "fetch" /\ errors < MaxErrors
    /\ errors' = errors + 1
    /\ wpc' = "exited"
    /\ winstr' = IdleInstr
    /\ UNCHANGED <<input, output, opts, paging, storage, disk, mutex, queue, pc, phase, cr, todo,
                   log, finished, downloads,
                   crashes, ckpt, everCkpt>>

\* File::create, the request, or write_all fails: Err leaves
\* handle_instruction and the loop logs it
WorkerFails ==
    /\ wpc = "fetch" /\ errors < MaxErrors
    /\ errors' = errors + 1
    /\ wpc' = "recv"
    /\ winstr' = IdleInstr
    /\ UNCHANGED <<input, output, opts, paging, storage, disk, mutex, queue, pc, phase, cr, todo,
                   log, finished, downloads,
                   crashes, ckpt, everCkpt>>

\* the bytes arrived and were written
WorkerFetched ==
    /\ wpc = "fetch"
    /\ downloads' = [downloads EXCEPT ![winstr.url] = @ + 1]
    /\ wpc' = "record"
    /\ UNCHANGED <<input, output, opts, paging, storage, disk, mutex, queue, pc, phase, cr, todo,
                   winstr, log, errors, finished,
                   crashes, ckpt, everCkpt>>

\* media.insert(url, path)
RecordMedia(st, i) == [st EXCEPT !.media = (i.url :> MediaPath(i)) @@ st.media]

WorkerRecord ==
    /\ wpc = "record" /\ mutex = "free"
    /\ storage' = RecordMedia(storage, winstr)
    /\ wpc' = "recv"
    /\ winstr' = IdleInstr
    /\ UNCHANGED <<input, output, opts, paging, disk, mutex, queue, pc, phase, cr, todo,
                   log, errors, finished, downloads,
                   crashes, ckpt, everCkpt>>

(***************************************************************************)
(* Specifications.                                                         *)
(***************************************************************************)
Orchestrator == PhaseSkip \/ PhaseStart \/ SaveData \/ SendDone \/ Finish

Timeline == TimelineBegin \/ TimelineEmpty \/ TimelinePage \/ TimelinePageDone
            \/ TimelineWake

Ids == IdsBegin \/ IdsEmpty \/ IdsPage \/ LookupOk \/ IdsPageDone \/ IdsWake

Lists == ListsBegin \/ ListsEmpty \/ ListsPage \/ MembersBegin \/ MembersEmpty
         \/ MembersPage \/ MembersPageDone \/ MembersWake \/ ListsPageDone
         \/ ListsWake

Steps == ExecSend \/ SingleProfileKnown \/ SingleProfileMiss \/ ShowOk
         \/ InsertProfile \/ InsertProfiles \/ Member \/ SearchOk \/ SearchWake
         \/ StoreReplies

Crawler == Orchestrator \/ Timeline \/ Ids \/ Lists \/ Steps

Worker == WorkerRecvDone \/ WorkerDiscard \/ WorkerTake \/ WorkerSkip
          \/ WorkerStart \/ WorkerFetched \/ WorkerRecord

Failures == SaveDataFails \/ TimelineCallError \/ IdsCallError \/ LookupError
            \/ ListsCallError \/ MembersCallError \/ ShowError \/ SearchError
            \/ WorkerFails \/ WorkerClosed

Next == Crawler \/ Worker \/ Failures

Spec == Init /\ [][Next]_vars

(***************************************************************************)
(* An interrupted run: the process is killed at any point and started      *)
(* again.  The paging positions and the aggregate as last saved survive;   *)
(* everything in memory is lost.                                           *)
(***************************************************************************)
CrashRestart ==
    /\ crashes < MaxCrashes /\ pc # "done"
    /\ crashes' = crashes + 1
    /\ storage' = disk
    /\ mutex' = "free"
    /\ queue' = <<>>
    /\ pc' = "phase"
    /\ phase' = 1
    /\ cr' = CrInit
    /\ todo' = <<>>
    /\ wpc' = "recv"
    /\ winstr' = IdleInstr
    /\ log' = <<>>
    /\ finished' = None
    /\ UNCHANGED <<input, output, opts, paging, disk, errors, downloads, ckpt, everCkpt>>

NextCrash == Next \/ CrashRestart

\* The interrupted runs are explored for these configurations: everything
\* enabled, everything but the media download, and the id and list phases
\* alone.
CrashOptions ==
    { o \in AllOptions :
        \/ \A n \in OptNames : o[n]
        \/ \A n \in OptNames : o[n] <=> (n # "media")
        \/ \A n \in OptNames : o[n] <=> (n \in {"followers", "follows", "lists", "media"}) }

InitCrash == InitWith(CrashOptions)

CrashSpec == InitCrash /\ [][NextCrash]_vars

(***************************************************************************)
(* Runs without upstream or filesystem failures, under weak fairness of    *)
(* the two tasks: the tokio runtime polls a task that can make progress.   *)
(***************************************************************************)
NextLive == Crawler \/ Worker

LiveSpec == Init /\ [][NextLive]_vars /\ WF_vars(Crawler) /\ WF_vars(Worker)


(***************************************************************************)
(* The runs with failures, under fair scheduling of the two tasks: the     *)
(* crawl task and the download task each take a step when they can; the    *)
(* download task's recv returning None is a step of that task.  Failures   *)
(* may happen, none has to.                                                *)
(***************************************************************************)
FairSpec ==
    Init /\ [][Next]_vars /\ WF_vars(Crawler) /\ WF_vars(Worker \/ WorkerClosed)

(***************************************************************************)
(* The variant loop of inspect_inner_tweet applied on its own to the       *)
(* variant lists of up to MaxVariants entries.                             *)
(***************************************************************************)
ContentTypes == {"mp4", "x-mpegurl"}
Bitrates == {None, Some(300), Some(600), Some(900)}
VariantUrl(k) == [name |-> "variant", ext |-> "", pos |-> k]

VariantLists ==
    UNION { { [k \in 1..n |-> Variant(f[k][1], f[k][2], VariantUrl(k))] :
                f \in [1..n -> ContentTypes \X Bitrates] } :
            n \in 1..MaxVariants }

InitVariants ==
    /\ InitState({[n \in OptNames |-> TRUE]})
    /\ input \in VariantLists
    /\ output = None

\* one media entity with these variants goes through the loop body
InspectVideo ==
    /\ input # None /\ output = None
    /\ output' = Some(MediaInstr(Video(input, UA)))
    /\ UNCHANGED <<opts, paging, storage, disk, mutex, queue, pc, phase, cr,
                   todo, wpc, winstr, log, errors, finished, downloads,
                   crashes, ckpt, everCkpt, input>>

VariantSpec == InitVariants /\ [][InspectVideo]_vars

(***************************************************************************)
(* handle_rate_limit applied on its own to a quota status and a clock.     *)
(***************************************************************************)
\* `x as u64` of a 64-bit signed x, as four 16-bit limbs, most significant
\* first; x is within one limb of zero.
AsU64(x) ==
    IF x >= 0 THEN <<0, 0, 0, x>> ELSE <<65535, 65535, 65535, 65536 + x>>

\* SystemTime::now().duration_since(UNIX_EPOCH): Ok(n) => ..., Err(_) => 1000
SleepSeconds(reset, now, clock_ok) ==
    IF clock_ok THEN AsU64((reset - now) + 10) ELSE AsU64(1000)

\* what handle_rate_limit does with one quota status
HandleRateLimit(i) ==
    IF ShouldSleep(i.remaining)
    THEN [slept |-> TRUE, seconds |-> SleepSeconds(i.reset, i.now, i.clock_ok)]
    ELSE [slept |-> FALSE, seconds |-> AsU64(0)]

RateInputs ==
    [remaining : 0..3, reset : 0..MaxEpoch, now : 0..MaxEpoch,
     clock_ok : BOOLEAN]

InitRate ==
    /\ InitState({[n \in OptNames |-> TRUE]})
    /\ input \in RateInputs
    /\ output = None

RateLimited ==
    /\ input # None /\ output = None
    /\ output' = Some(HandleRateLimit(input))
    /\ UNCHANGED <<opts, paging, storage, disk, mutex, queue, pc, phase, cr,
                   todo, wpc, winstr, log, errors, finished, downloads,
                   crashes, ckpt, everCkpt, input>>

RateSpec == InitRate /\ [][RateLimited]_vars

(***************************************************************************)
(* Vocabulary of the properties.                                           *)
(***************************************************************************)
NoDup(seq) == \A i, j \in DOMAIN seq : seq[i] = seq[j] => i = j

\* The items of a feed, in the order an uninterrupted crawl fetches them.
FeedItems(key) ==
    CASE key[1] \in {"user_tweets", "user_mentions"} ->
             TopDesc(TimelineIds(key[1]), Cardinality(TimelineIds(key[1])))
      [] key[1] \in {"followers", "follows"} -> IdFeed(key[1])
      [] key[1] = "lists" -> ListFeed
      [] OTHER -> ListMembers(key[2])

FeedPageSize(key) ==
    CASE key[1] \in {"user_tweets", "user_mentions"} -> TweetPageSize
      [] key[1] \in {"followers", "follows"} -> IdPageSize
      [] key[1] = "lists" -> ListPageSize
      [] OTHER -> MemberPageSize

\* The page that follows the items processed and checkpointed so far.
NextItems(key) ==
    LET n == Len(ckpt[key])
        all == FeedItems(key) IN
    SubSeq(all, n + 1, Min2(n + FeedPageSize(key), Len(all)))

\* The feed a page request is outstanding for, and what it will return.
Calling == pc \in {"call", "m_call"}
CurKey == IF pc = "m_call" THEN ListKey(cr.list) ELSE Key(PhaseKind(phase))
PendingResponse ==
    IF pc = "m_call" THEN MembersPageAt(cr.list, cr.mcursor)
    ELSE IF IsTimeline THEN TimelineOlder(PhaseKind(phase), cr.min_id, cr.first_page)
    ELSE IF IsIds THEN IdsPageAt(cr.cursor)
    ELSE ListsPageAt(cr.cursor)

\* Whether the aggregate holds an item of a feed.
InAggregate(st, key, item) ==
    CASE key[1] = "user_tweets" -> item \in Range(st.tweets)
      [] key[1] = "user_mentions" -> item \in Range(st.mentions)
      [] key[1] = "followers" -> item \in Range(st.followers)
      [] key[1] = "follows" -> item \in Range(st.follows)
      [] key[1] = "lists" -> \E k \in DOMAIN st.lists : st.lists[k].id = item
      [] OTHER -> \E k \in DOMAIN st.lists :
                     st.lists[k].id = key[2] /\ item \in Range(st.lists[k].members)

(***************************************************************************)
(* C1.  Across runs interrupted by a crash and restarted from the          *)
(* persisted paging positions and the persisted aggregate, no tweet or     *)
(* mention is in the persisted tweets or mentions collection twice.        *)
(***************************************************************************)
C1_NoPageSavedTwice == NoDup(disk.tweets) /\ NoDup(disk.mentions)

(***************************************************************************)
(* C2.  A crash loses at most the page in flight: when a restarted crawl   *)
(* finishes, every item whose page was processed and checkpointed, in this *)
(* run or an interrupted one, is in the final aggregate.                   *)
(***************************************************************************)
C2_CheckpointedPagesKept ==
    pc = "done" =>
        \A key \in PagingKeys : \A item \in everCkpt[key] :
            InAggregate(storage, key, item)

(***************************************************************************)
(* C3.  Pagination resumption: after a restart, a page request for a feed  *)
(* whose paging position is persisted returns the page right after the     *)
(* pages processed and checkpointed so far: page N+1, neither page N again *)
(* nor a later page.                                                       *)
(***************************************************************************)
C3_ResumeAtNextPage ==
    (Calling /\ crashes > 0 /\ paging[CurKey] # None)
        => PendingResponse = NextItems(CurKey)


(***************************************************************************)
(* C4.  The crawl task never holds the storage mutex while it is           *)
(* suspended on a queue send, a rate-limit sleep or an upstream call.      *)
(***************************************************************************)
QueueFull == Len(queue) >= QueueCap

CrawlerSuspended ==
    \/ pc \in {"call", "m_call", "lookup"}
    \/ pc \in {"sleep", "m_sleep"}
    \/ HasOp("show") \/ HasOp("search") \/ HasOp("sleep")
    \/ HasOp("send") /\ QueueFull
    \/ pc = "phase" /\ phase = 6 /\ QueueFull

C4_NoLockWhileSuspended == CrawlerSuspended => mutex # "crawler"

(***************************************************************************)
(* C5.  Backpressure is live: in a run without failures, as long as        *)
(* Finished has not been emitted the crawl task or the download task can   *)
(* take a step, so under weak fairness the run ends with Finished.         *)
(***************************************************************************)
C5_NeverStuck == pc = "done" \/ ENABLED NextLive

(***************************************************************************)
(* C6.  The enabled phases run in the order tweets, mentions, followers,   *)
(* follows, lists without overlapping; each phase's Loading event precedes *)
(* its first feed request; the aggregate is saved once the phase is        *)
(* complete and before the next Loading event; a disabled phase emits no   *)
(* Loading event, makes no request and triggers no save.                   *)
(***************************************************************************)
PhaseFlagOrder == <<"tweets", "mentions", "followers", "follows", "lists">>
PhaseFeedOrder ==
    <<"user_tweets", "user_mentions", "followers", "follows", "lists">>

LogAt(e, n) == { i \in DOMAIN log : log[i].e = e /\ log[i].phase = n }

C6_PhasesInOrder ==
    /\ \A i, j \in DOMAIN log : i < j => log[i].phase <= log[j].phase
    /\ \A n \in 1..5 :
        /\ Cardinality(LogAt("loading", n)) <= 1
        /\ Cardinality(LogAt("save", n)) <= 1
        /\ ~opts[PhaseFlagOrder[n]] =>
               \A i \in DOMAIN log : log[i].phase # n
        /\ \A i \in LogAt("request", n) :
               /\ \E j \in LogAt("loading", n) : j < i
               /\ \A j \in LogAt("save", n) : i < j
               /\ \/ log[i].key[1] = PhaseFeedOrder[n]
                  \/ n = 5 /\ log[i].key[1] = "list-"
        /\ \A i \in LogAt("save", n) :
               i > 1 /\ log[i - 1].e = "request" /\ log[i - 1].phase = n
        /\ \A i \in LogAt("loading", n) :
               /\ i > 1 => log[i - 1].e = "save"
               /\ \A m \in 1..(n - 1) :
                      opts[PhaseFlagOrder[m]] => LogAt("save", m) # {}
    /\ pc = "done" =>
           \A n \in 1..5 : opts[PhaseFlagOrder[n]] =>
               LogAt("loading", n) # {} /\ LogAt("save", n) # {}

\* a finished run with enabled and disabled phases
C6_Witness ==
    /\ pc = "done"
    /\ opts["tweets"] /\ ~opts["mentions"] /\ opts["followers"]
    /\ ~opts["follows"] /\ opts["lists"]


(***************************************************************************)
(* C7.  Finished is emitted at most once, as the last progress event, and  *)
(* only after every enabled phase completed, the Done sentinel was         *)
(* enqueued behind every other instruction, and the download task drained  *)
(* the queue and exited; so the snapshot in Finished holds every media     *)
(* entry recorded and the download task handles nothing after it.          *)
(***************************************************************************)
C7_FinishedLast ==
    /\ Cardinality(LogAt("finished", 6)) <= 1
    /\ (finished # None) <=> (LogAt("finished", 6) # {})
    /\ \A k \in DOMAIN queue : queue[k].kind = "Done" => k = Len(queue)
    /\ LogAt("done", 6) # {} =>
           /\ todo = <<>>
           /\ \A n \in 1..5 : opts[PhaseFlagOrder[n]] => LogAt("save", n) # {}
    /\ finished # None =>
           /\ log[Len(log)].e = "finished"
           /\ \E i \in LogAt("done", 6) : i < Len(log)
           /\ queue = <<>> /\ wpc = "exited"
           /\ Unwrap(finished).media = storage.media
           /\ \A u \in Urls : downloads[u] > 0 =>
                  u \in DOMAIN Unwrap(finished).media

\* Finished was sent with media recorded during the run
C7_Witness ==
    /\ finished # None
    /\ Cardinality(DOMAIN Unwrap(finished).media) >= 2

(***************************************************************************)
(* C8.  A crawler run from an absent checkpoint without interruption: once *)
(* it has returned, its collection is exactly the items of the feed's      *)
(* non-empty pages in fetch order, nothing omitted or repeated, and its    *)
(* checkpoint is absent; while it runs the collection is a prefix of that. *)
(***************************************************************************)
IsPrefix(a, b) == Len(a) <= Len(b) /\ a = SubSeq(b, 1, Len(a))

Collected(n) ==
    CASE n = 1 -> storage.tweets [] n = 2 -> storage.mentions
      [] n = 3 -> storage.followers [] n = 4 -> storage.follows
      [] OTHER -> [k \in DOMAIN storage.lists |-> storage.lists[k].id]

C8_ExactlyThePages ==
    /\ \A n \in 1..5 :
           LET key == <<PhaseFeedOrder[n], 0>> IN
           /\ IsPrefix(Collected(n), FeedItems(key))
           /\ LogAt("save", n) # {} =>
                  Collected(n) = FeedItems(key) /\ paging[key] = None
    /\ \A k \in DOMAIN storage.lists :
           /\ storage.lists[k].members = ListMembers(storage.lists[k].id)
           /\ paging[<<"list-", storage.lists[k].id>>] = None

\* every crawler has returned; the tweets came in more than one page
C8_Witness ==
    /\ \A n \in 1..5 : opts[PhaseFlagOrder[n]] /\ LogAt("save", n) # {}
    /\ Len(storage.tweets) > TweetPageSize
    /\ Len(storage.followers) > IdPageSize
    /\ Len(storage.lists) = NLists

(***************************************************************************)
(* C9.  On a failed page call every crawler retries the same request and   *)
(* changes neither its cursor, the checkpoint nor the aggregate.           *)
(***************************************************************************)
PageCallFailed ==
    pc \in {"call", "m_call"} /\ errors' = errors + 1 /\ wpc' = wpc

C9_EveryCrawlerRetries ==
    [][PageCallFailed =>
          /\ pc' = pc /\ phase' = phase /\ cr' = cr
          /\ paging' = paging /\ storage' = storage]_vars

(***************************************************************************)
(* C9, amended.  On a failed page call the followers, follows, lists and   *)
(* list-member crawlers retry the same request with cursor, checkpoint and *)
(* aggregate unchanged; the tweets and mentions crawlers return the error, *)
(* which ends the run, also with checkpoint and aggregate unchanged.       *)
(***************************************************************************)
C9_CursorCrawlersRetry ==
    [][PageCallFailed =>
          /\ paging' = paging /\ storage' = storage /\ phase' = phase
          /\ IF phase \in {1, 2} THEN pc' = "aborted"
             ELSE pc' = pc /\ cr' = cr]_vars

\* a cursor crawler asked for the same page twice, its call having failed
C9_Witness ==
    /\ errors > 0
    /\ \E i, j \in DOMAIN log :
           /\ i < j /\ log[i].e = "request" /\ log[j].e = "request"
           /\ log[i].phase \in {3, 4, 5}
           /\ log[i].phase = log[j].phase /\ log[i].key = log[j].key
           /\ log[i].at = log[j].at

(***************************************************************************)
(* C10.  Media deduplication: the download task never fetches a url that   *)
(* is a key of the media map, so every url is downloaded and recorded at   *)
(* most once, and a recorded path is never replaced.                       *)
(***************************************************************************)
C10_MediaDedup ==
    /\ [](/\ wpc \in {"fetch", "record"} =>
                winstr.url \notin DOMAIN storage.media
          /\ \A u \in Urls : downloads[u] <= 1)
    /\ [][\A u \in DOMAIN storage.media :
             /\ u \in DOMAIN storage'.media
             /\ storage'.media[u] = storage.media[u]]_vars

\* a finished run in which the url UA, which tweet 1, its retweeted tweet 22
\* and every profile refer to, was asked for several times and fetched once
C10_Witness ==
    /\ finished # None /\ errors = 0
    /\ opts["media"] /\ opts["tweets"] /\ opts["followers"]
    /\ downloads[UA] = 1 /\ UA \in DOMAIN storage.media

(***************************************************************************)
(* C11.  A profile is stored at most once per id: once an id is in the     *)
(* profile cache, no later step asks upstream for that profile (user::show *)
(* or user::lookup) and no later step writes the id's cache entry again,   *)
(* whichever crawler refers to the id.                                     *)
(***************************************************************************)
\* the step being taken inserts the profile `id` into the cache
ProfileWritten(id) ==
    /\ todo # <<>> /\ todo' = Tail(todo)
    /\ \/ Head(todo).op \in {"member", "insert_profile"} /\ Head(todo).arg = id
       \/ Head(todo).op = "insert_profiles" /\ id \in Range(Head(todo).arg)

\* a profile fetch for `id` is outstanding upstream
ProfileRequested(id) ==
    \/ HasOp("show") /\ Head(todo).arg = id
    \/ pc = "lookup" /\ id \in Range(cr.filtered)

C11_ProfileStoredOnce ==
    /\ [](\A id \in storage.profiles : ~ProfileRequested(id))
    /\ [][\A id \in storage.profiles : ~ProfileWritten(id)]_vars

(***************************************************************************)
(* C12.  Video variant selection: for a media item with video variants of  *)
(* which at least one is mp4, the Movie instruction emitted carries the    *)
(* earliest of the mp4 variants with the greatest bitrate, and never a     *)
(* variant that is not mp4.                                                *)
(***************************************************************************)
Mp4At(vs) == { k \in DOMAIN vs : vs[k].ct = "mp4" }

\* the earliest mp4 variant no other mp4 variant has a greater bitrate than
BestMp4At(vs) ==
    CHOOSE k \in Mp4At(vs) :
        /\ \A j \in Mp4At(vs) : ~OptGt(vs[j].bitrate, vs[k].bitrate)
        /\ \A j \in Mp4At(vs) :
               j < k => OptGt(vs[k].bitrate, vs[j].bitrate)

C12_GreatestMp4Selected ==
    (input # None /\ output # None /\ Mp4At(input) # {}) =>
        Unwrap(output) = <<Movie("mp4", input[BestMp4At(input)].url)>>

(***************************************************************************)
(* C13.  Rate limiter: with remaining > 1 no delay is introduced; with     *)
(* remaining <= 1 the caller sleeps exactly (reset - now) + 10 seconds, or *)
(* 1000 seconds when the current time cannot be read.                      *)
(***************************************************************************)
C13_SleepsResetPlusTen ==
    (input # None /\ output # None) =>
        LET i == input
            r == Unwrap(output) IN
        IF i.remaining > 1 THEN ~r.slept
        ELSE /\ r.slept
             /\ r.seconds = <<0, 0, 0, IF i.clock_ok THEN (i.reset - i.now) + 10
                                       ELSE 1000>>

(***************************************************************************)
(* C14.  Reply discovery: when the search for a tweet T answers, exactly   *)
(* the results whose in_reply_to_status_id is T's id are inspected, in     *)
(* result order, and stored as the reply set under key T.id, replacing the *)
(* set under that key (the empty set when none matches); no other result   *)
(* is inspected or stored and no other key's set changes.                  *)
(***************************************************************************)
IsReplyTo(t, r) == Tweet(r).reply_to = Some(t)
Matching(t) == SelectSeq(SearchResults(t), LAMBDA r : IsReplyTo(t, r))

\* the step being taken is the search for Head(todo).arg answering
SearchAnswered == HasOp("search") /\ errors' = errors /\ todo' # todo

\* the steps the answer put in front of the rest of the page
StepsAdded == SubSeq(todo', 1, Len(todo') - Len(todo) + 1)

C14_ExactlyTheReplies ==
    /\ [](\A t \in DOMAIN storage.responses :
             storage.responses[t] = Matching(t))
    /\ [][SearchAnswered =>
            LET t == Head(todo).arg
                m == Matching(t) IN
            SelectSeq(StepsAdded, LAMBDA o : o.op # "sleep")
              = Flatten([k \in DOMAIN m |-> InnerOps(Tweet(m[k]), opts)])
                \o <<Op("store_replies", [tweet |-> t, replies |-> m])>>]_vars
    /\ [][storage'.responses # storage.responses =>
            /\ HasOp("store_replies")
            /\ LET t == Head(todo).arg.tweet IN
               storage'.responses = (t :> Matching(t)) @@ storage.responses]_vars

\* the replies of tweet 1 (31 and 33 of the results 31, 32, 33) and of
\* tweet 3 (none of the one result) are stored
C14_Witness ==
    /\ {1, 3} \subseteq DOMAIN storage.responses
    /\ storage.responses[1] = <<31, 33>>
    /\ storage.responses[3] = <<>>

(***************************************************************************)
(* C15.  When a crawler returns an error the run aborts: no later Loading  *)
(* event, feed request or save happens, none for the failed phase either,  *)
(* Done and Finished are never sent, the failed phase's checkpoint keeps   *)
(* its last written value and what earlier phases saved stays as saved.    *)
(***************************************************************************)
\* the step being taken is a call failing whose error the crawler returns
CrawlerFailed ==
    /\ (pc = "call" /\ IsTimeline) \/ pc = "lookup"
    /\ errors' = errors + 1 /\ wpc' = wpc

Aborted == pc = "aborted"

C15_FailureAbortsRun ==
    /\ [][CrawlerFailed =>
            /\ Aborted' /\ phase' = phase
            /\ paging' = paging /\ disk' = disk /\ log' = log]_vars
    /\ [][Aborted =>
            /\ Aborted' /\ phase' = phase
            /\ paging' = paging /\ disk' = disk /\ log' = log
            /\ finished' = finished]_vars
    /\ [](Aborted =>
            /\ finished = None
            /\ \A k \in DOMAIN queue : queue[k] # DoneInstr
            /\ \A k \in DOMAIN log :
                   /\ log[k].e \notin {"done", "finished"}
                   /\ log[k].phase <= phase
                   /\ log[k].e = "save" => log[k].phase < phase)

\* the mentions crawler failed at its second request: the tweets phase was
\* saved, the mentions checkpoint stands at the first page's position, and
\* the download task has ended
C15_Witness ==
    /\ Aborted /\ phase = 2 /\ wpc = "exited"
    /\ disk.tweets # <<>>
    /\ paging[Key("user_mentions")] # None
    /\ disk.mentions = <<>>

(***************************************************************************)
(* C16.  Tweet inspection swallows step failures: when a step of           *)
(* inspect_tweet fails (a single profile fetch, the reply search) the      *)
(* steps after it, the media items and the tweets still to come are left   *)
(* to be processed, nothing is stored or checkpointed by the failure, and  *)
(* the page loop is never left with an error.                              *)
(***************************************************************************)
\* the step being taken is a call of inspect_tweet's failing
StepFailed ==
    /\ pc = "items" /\ todo # <<>> /\ Head(todo).op \in {"show", "search"}
    /\ errors' = errors + 1 /\ wpc' = wpc

C16_StepFailuresSwallowed ==
    /\ [][StepFailed =>
            /\ todo' = Tail(todo)
            /\ pc' = pc /\ phase' = phase /\ cr' = cr
            /\ storage' = storage /\ paging' = paging]_vars
    /\ [][pc = "items" => ~Aborted']_vars

\* the profile fetch for retweeted tweet 22 (user 2) failed; its photo was
\* sent and downloaded all the same, and the loop is at the next tweet
C16_Witness ==
    /\ phase = 1 /\ pc = "items" /\ errors = 1 /\ opts.tweet_profiles
    /\ 2 \notin storage.profiles
    /\ UA \in DOMAIN storage.media
    /\ todo # <<>> /\ Head(todo) = Op("single_profile", 2)

(***************************************************************************)
(* C17.  Download-task error tolerance: a failed download leaves the media *)
(* map unchanged and the task goes back to receiving; the url is recorded  *)
(* only by the step after its bytes were written; an instruction whose url *)
(* is not recorded is always attempted, a url that failed before included. *)
(***************************************************************************)
\* the step being taken is handle_instruction returning an error
DownloadFailed == wpc = "fetch" /\ wpc' # wpc /\ errors' = errors + 1

C17_DownloadErrorsTolerated ==
    /\ [][DownloadFailed =>
            /\ storage' = storage /\ queue' = queue
            /\ wpc' = "recv"]_vars
    /\ [][storage'.media # storage.media =>
            /\ wpc = "record" /\ downloads[winstr.url] > 0
            /\ DOMAIN storage'.media = DOMAIN storage.media \cup {winstr.url}]_vars
    /\ [][(wpc = "check" /\ wpc' # wpc
              /\ winstr.url \notin DOMAIN storage.media) => wpc' = "fetch"]_vars

\* only the tweets phase ran (instructions for UA, UV, UA) and the one error
\* of the run was a download: UV is recorded, so the first download of UA
\* failed, and UA was fetched and recorded for the later instruction
C17_Witness ==
    /\ finished # None /\ errors = 1
    /\ opts.tweets /\ opts.media
    /\ \A n \in OptNames \ {"tweets", "media"} : ~opts[n]
    /\ \A k \in DOMAIN log : log[k].e = "save" => log[k].at = <<TRUE>>
    /\ {UA, UV} \subseteq DOMAIN storage.media
    /\ downloads[UA] = 1

(***************************************************************************)
(* C18.  The followers (follows) list is written once per phase, by the    *)
(* step that completes the phase: it becomes the ids of every non-empty    *)
(* page the phase fetched, in fetch order, whatever it held before, and no *)
(* other step of the run changes it.                                       *)
(***************************************************************************)
\* the cursors phase n requested since the run started, in request order
RequestedAt(n) ==
    LET reqs == SelectSeq(log, LAMBDA e : e.e = "request" /\ e.phase = n) IN
    [k \in DOMAIN reqs |-> reqs[k].at[1]]

\* the pages found at these cursors; a cursor asked again after an error
\* is one page
RECURSIVE PagesAt(_, _, _)
PagesAt(kind, cursors, prev) ==
    IF cursors = <<>> THEN <<>>
    ELSE (IF Head(cursors) = prev THEN <<>>
          ELSE CursorItems(IdFeed(kind), IdPageSize, Head(cursors)))
         \o PagesAt(kind, Tail(cursors), Head(cursors))

IdsPhaseCompletes(n) ==
    phase = n /\ pc = "call" /\ pc' = "save" /\ PendingResponse = <<>>

RequestPosition ==
    IF pc = "m_call" THEN CursorToPos(cr.mcursor)
    ELSE IF IsTimeline
         THEN (IF cr.first_page # None THEN cr.first_page ELSE cr.min_id)
         ELSE CursorToPos(cr.cursor)

\* the items of a feed its crawler has processed
Processed(key) ==
    CASE key[1] \in {"user_tweets", "user_mentions", "lists"} -> Collected(phase)
      [] key[1] \in {"followers", "follows"} -> cr.ids
      [] OTHER -> cr.member_ids

C19_CheckpointedInFetchOrder ==
    /\ [](Calling =>
            /\ paging[CurKey] = RequestPosition
            /\ PendingResponse = NextItems(CurKey))
    /\ [][\A key \in PagingKeys :
             (paging'[key] # paging[key] /\ paging'[key] # None) =>
                 /\ ckpt'[key] # ckpt[key]
                 /\ Processed(key)' = ckpt'[key]]_vars

\* the second page of tweets is requested: the first page (3, 2) is in the
\* aggregate and the position written is that of the request
C19_Witness ==
    /\ phase = 1 /\ pc = "call"
    /\ storage.tweets = <<3, 2>>
    /\ paging[Key("user_tweets")] = Some(2)
    /\ cr.min_id = Some(2)
    /\ PendingResponse = <<1>>

(***************************************************************************)
(* C20.  Every list gets exactly one ListRecord, appended only when its    *)
(* member feed is exhausted, whose members are the ids of all member pages *)
(* of the list in fetch order, and the list's own checkpoint is absent     *)
(* once the record is there; no list gets a second or a partial record,    *)
(* also when the lists phase is resumed after an interruption.             *)
(***************************************************************************)
C20_OneCompleteRecordPerList ==
    /\ [](\A j, k \in DOMAIN storage.lists :
             /\ j # k => storage.lists[j].id # storage.lists[k].id
             /\ storage.lists[k].members = ListMembers(storage.lists[k].id)
             /\ paging[ListKey(storage.lists[k].id)] = None)
    /\ [][Len(storage'.lists) > Len(storage.lists) =>
            pc = "m_call" /\ PendingResponse = <<>>]_vars

(***************************************************************************)
(* C21.  With the media download disabled the download task is always at   *)
(* its receive (or has ended): it never enters handle_instruction, so it   *)
(* fetches nothing and takes no storage lock; whenever the queue holds an  *)
(* instruction the task can take it, so no send stays blocked; the media   *)
(* map never changes; and receiving Done ends the task.                    *)
(***************************************************************************)
C21_DisabledMediaDrains ==
    /\ [](~opts.media =>
            /\ wpc \in {"recv", "exited"}
            /\ \A u \in Urls : downloads[u] = 0
            /\ queue # <<>> => wpc = "recv" /\ ENABLED Worker)
    /\ [][~opts.media =>
            /\ storage'.media = storage.media
            /\ Len(queue') < Len(queue) =>
                   wpc' = IF Head(queue) = DoneInstr THEN "exited" ELSE "recv"]_vars

\* a finished run without media download: the tweets phase sent its
\* instructions through the queue, the task ended on Done, nothing recorded
C21_Witness ==
    /\ ~opts.media /\ opts.tweets
    /\ finished # None /\ wpc = "exited"
    /\ Len(storage.tweets) = NTweets
    /\ storage.media = <<>>

(***************************************************************************)
(* C22.  A followers or follows phase that was resumed from a persisted    *)
(* position and has completed leaves the id list of the whole feed: the    *)
(* ids of the pages processed before the interruption and of the pages     *)
(* fetched after the restart.                                              *)
(***************************************************************************)
C22_ResumedListIsWholeFeed ==
    \A n \in {3, 4} :
        (crashes > 0 /\ LogAt("save", n) # {}) =>
            Collected(n) = IdFeed(PhaseFeedOrder[n])

(***************************************************************************)
(* C23.  The sleep of the rate limiter never wraps around: with remaining  *)
(* <= 1 and the clock read, the seconds slept, as an unsigned 64-bit       *)
(* number, are at most max(reset - now, 0) + 10, also for a reset epoch    *)
(* more than 10 seconds in the past.                                       *)
(***************************************************************************)
C23_SleepNeverWraps ==
    (input # None /\ output # None /\ input.remaining <= 1 /\ input.clock_ok) =>
        LET secs == Unwrap(output).seconds IN
        /\ \A k \in 1..3 : secs[k] = 0
        /\ secs[4] <= Max({input.reset - input.now, 0}) + 10

(***************************************************************************)
(* C24.  The download task always eventually ends, also when the run       *)
(* aborts: in every fair run it leaves its receive loop.                   *)
(***************************************************************************)
C24_WorkerTerminates == <>(wpc = "exited")

=============================================================================
